---- MODULE Spec2Model ----
(***************************************************************************)
(* Model of everyone_nodong_bot/main.py: the process-wide State            *)
(* (message_count, last_message), the handlers registered in main() and    *)
(* the way one update is passed through the handler groups 0, 1 and 2.     *)
(* The handlers are cut at their awaits (delete, send_message,             *)
(* reply_text); updates are dispatched one at a time.                      *)
(*                                                                         *)
(* Variables of the program: message_count, last_message, pc, update.      *)
(* Remote side: chat (welcome messages that exist in the chat), nextId.    *)
(* History variables, read by the properties only: ev, hist.               *)
(***************************************************************************)
EXTENDS Integers, FiniteSets, Sequences, TLC

VARIABLES message_count, last_message, chat, nextId, pc, update, ev, hist

vars == <<message_count, last_message, chat, nextId, pc, update, ev, hist>>

(* ---------------------------------------------------------------- bounds *)

\* message_count is unbounded in the program; updates that would be counted
\* are only dispatched while message_count < MaxCount.
MaxCount == 7

\* Number of welcome messages the bot can send in one run of the model.
MaxMsgs == 3

\* Longest run of back-to-back new-member updates that is dispatched.
MaxRun == 6

(* ------------------------------------------------------------- constants *)

GREET_DEBOUNCE_MESSAGE_COUNT == 3

THRESHOLD == GREET_DEBOUNCE_MESSAGE_COUNT

\* State.__init__: message_count starts one above the threshold.
InitialMessageCountZero == GREET_DEBOUNCE_MESSAGE_COUNT * 0

InitialMessageCount == GREET_DEBOUNCE_MESSAGE_COUNT + 1

\* last_message = None
None == 0

(* --------------------------------------------------------------- updates *)

\* The command handlers of group 2, in registration order.
Commands == <<"/about", "/rules", "/question", "/calendar">>

CommandSet == {Commands[i] : i \in 1..Len(Commands)}

\* Kinds of update the Event Receiver delivers:
\*   text, photo        a message with text / with a photo
\*   sticker            a message with neither text nor photo
\*   new_chat_members   the service message of a join
\*   /about ...         a text message that is one of the commands
\*   poll               an update that carries no message (and no chat)
Updates == {"text", "photo", "sticker", "new_chat_members", "poll"} \cup CommandSet

\* Update.effective_message is set
HasMessage(u) == u # "poll"

\* Update.effective_chat: the chat of the message; every message has one.
EffectiveChat(u) == HasMessage(u)

\* filters.TEXT: the message has text (commands are text messages)
FilterTEXT(u) == u \in {"text"} \cup CommandSet

\* filters.PHOTO
FilterPHOTO(u) == u = "photo"

\* filters.CHAT: the message has a chat
FilterCHAT(u) == HasMessage(u) /\ EffectiveChat(u)

\* filters.StatusUpdate.NEW_CHAT_MEMBERS
FilterNEW_CHAT_MEMBERS(u) == u = "new_chat_members"

\* The filter of the group 0 handler: filters.TEXT | filters.PHOTO | filters.CHAT
CountMessageFilterTextPhoto(u) == FilterTEXT(u) \/ FilterPHOTO(u)

CountMessageFilter(u) == FilterTEXT(u) \/ FilterPHOTO(u) \/ FilterCHAT(u)

\* The filter of the group 1 handler
GreetMessageFilter(u) == FilterNEW_CHAT_MEMBERS(u)

\* An ordinary message: a message that is neither a join nor a command.
Ordinary(u) == u \in {"text", "photo", "sticker"}

(* ---------------------------------------------------- the debounce check *)

\* greet_message returns early when message_count <= GREET_DEBOUNCE_MESSAGE_COUNT
SuppressedStrict(c) == c < GREET_DEBOUNCE_MESSAGE_COUNT

Suppressed(c) == c <= GREET_DEBOUNCE_MESSAGE_COUNT

\* state.message_count = 0
ResetCountKept(c) == c

ResetCount(c) == 0

(* ------------------------------------------------- outcomes of the awaits *)

\* What await state.last_message.delete() can do, given whether the message
\* still exists remotely:
\*   deleted       the message is removed
\*   not_found     BadRequest: the message is already gone
\*   cant_delete   BadRequest: the message exists but cannot be deleted
\*   forbidden     Forbidden: the bot has no access to the chat any more
\*   network       NetworkError / TimedOut
DeleteOutcomes(exists) ==
    (IF exists THEN {"deleted", "cant_delete"} ELSE {"not_found"})
        \cup {"forbidden", "network"}

\* The exception class delete() raises for an outcome ("" for none).
ExceptionOf(o) ==
    CASE o = "deleted"     -> ""
      [] o = "not_found"   -> "BadRequest"
      [] o = "cant_delete" -> "BadRequest"
      [] o = "forbidden"   -> "Forbidden"
      [] o = "network"     -> "NetworkError"

\* except BadRequest: pass
CaughtNothing(exc) == FALSE

Caught(exc) == exc = "BadRequest"

\* What await effective_chat.send_message(...) and reply_text(...) can do.
SendOutcomes == {"ok", "fail"}

\* message_count after send_message raised: the exception leaves greet_message
\* and nothing is restored.
CountAfterSendErrorRestored(c, before) == before

CountAfterSendError(c, before) == c

\* The first await greet_message reaches after the reset (or "group2" when it
\* returns): the delete only when state.last_message is set, else the send.
FirstAwaitAlwaysDelete(hasChat, last) ==
    IF ~hasChat THEN "group2" ELSE "delete"

FirstAwaitNoDelete(hasChat, last) ==
    IF ~hasChat THEN "group2" ELSE "send"

FirstAwait(hasChat, last) ==
    IF ~hasChat THEN "group2"
    ELSE IF last # None THEN "delete"
    ELSE "send"

(* ------------------------------------------------------ history variables *)

\* The concrete scenario of the specification: a join, two ordinary messages,
\* a join, two ordinary messages, a join ("J" join, "O" ordinary message).
Scenario == <<"J", "O", "O", "J", "O", "O", "J">>

Class(u) ==
    IF GreetMessageFilter(u) THEN "J" ELSE IF Ordinary(u) THEN "O" ELSE "X"

\* The position in Scenario after update u, -1 once the updates left it.
ScenarioStep(n, u) ==
    IF n >= 0 /\ n < Len(Scenario) /\ Scenario[n + 1] = Class(u)
    THEN n + 1 ELSE -1

\* ev: what the handling of the current (or, when idle, the last) update did.
NoEvent ==
    [ kind        |-> "none",
      preCount    |-> 0,       \* message_count when the update was dispatched
      preLast     |-> None,    \* last_message when the update was dispatched
      first       |-> FALSE,   \* the first new-member update since startup
      anchor      |-> "start", \* "start", or "reset" once message_count was reset
      ordSince    |-> 0,       \* ordinary messages since the anchor
      othSince    |-> 0,       \* joins and commands since the anchor
      ordRun      |-> 0,       \* ordinary messages directly before this update
      ordGreet    |-> 0,       \* ordinary messages since the last greeting sent
      hadGreeting |-> FALSE,   \* greet_message sent a greeting before this update
      joinIdx     |-> 0,       \* position in the run of back-to-back joins
      runArmed    |-> FALSE,   \* that run started with message_count > THRESHOLD
      runSends    |-> 0,       \* send_message calls of the earlier joins of the run
      counted     |-> FALSE,   \* count_message ran
      checked     |-> FALSE,   \* greet_message ran
      checkCount  |-> 0,       \* message_count greet_message compared
      reset       |-> FALSE,   \* greet_message set message_count to 0
      delOutcome  |-> "none",  \* outcome of last_message.delete()
      delTarget   |-> None,
      sends       |-> 0,       \* calls of send_message
      sendOutcome |-> "none",
      sentId      |-> None,
      replied     |-> "none",  \* outcome of reply_text
      scen        |-> 0,       \* position of this update in Scenario, or -1
      error       |-> FALSE ]  \* an exception left a handler

\* hist: running counts over the updates dispatched so far.
NoHistory ==
    [ joined    |-> FALSE,   \* a new-member update was dispatched
      anchor    |-> "start",
      ordSince  |-> 0,
      othSince  |-> 0,
      ordRun    |-> 0,
      ordGreet  |-> 0,
      greetings |-> 0,       \* greetings sent by greet_message
      joinRun   |-> 0,
      runArmed  |-> FALSE,
      runSends  |-> 0,
      lastWelcome |-> None,  \* the welcome message sent last, by any handler
      lastGreet |-> None,    \* the greeting greet_message sent last
      greetIds  |-> {},      \* the greetings greet_message sent
      delClean  |-> TRUE,    \* every delete so far removed the message or found it gone
      scen      |-> 0 ]      \* the updates so far are the first scen of Scenario, or -1

(* ------------------------------------------------------------------ Init *)

Init ==
    /\ message_count = InitialMessageCount
    /\ last_message = None
    /\ chat = {}
    /\ nextId = 1
    /\ pc = "idle"
    /\ update = "none"
    /\ ev = NoEvent
    /\ hist = NoHistory

(* ------------------------------------------------------------- dispatch *)

Min(a, b) == IF a < b THEN a ELSE b

\* Application.process_update: the next update is taken when the previous one
\* has passed all groups (updates are processed one at a time).
Dispatch(u) ==
    LET join == GreetMessageFilter(u)
        armed == IF hist.joinRun = 0 THEN message_count > THRESHOLD
                                     ELSE hist.runArmed
    IN
    /\ pc = "idle"
    /\ CountMessageFilter(u) => message_count < MaxCount
    /\ (join \/ u = "/about") => nextId <= MaxMsgs
    /\ join => hist.joinRun < MaxRun
    /\ update' = u
    /\ pc' = "group0"
    /\ ev' = [NoEvent EXCEPT
                !.kind = u,
                !.preCount = message_count,
                !.preLast = last_message,
                !.first = join /\ ~hist.joined,
                !.anchor = hist.anchor,
                !.ordSince = hist.ordSince,
                !.othSince = hist.othSince,
                !.ordRun = hist.ordRun,
                !.ordGreet = hist.ordGreet,
                !.hadGreeting = hist.greetings > 0,
                !.joinIdx = IF join THEN hist.joinRun + 1 ELSE 0,
                !.runArmed = join /\ armed,
                !.runSends = IF join THEN hist.runSends ELSE 0,
                !.scen = ScenarioStep(hist.scen, u)]
    /\ hist' = [hist EXCEPT
                !.joined = @ \/ join,
                !.ordSince = IF Ordinary(u) THEN @ + 1 ELSE @,
                !.othSince = IF HasMessage(u) /\ ~Ordinary(u) THEN @ + 1 ELSE @,
                !.ordRun = IF Ordinary(u) THEN @ + 1
                           ELSE IF HasMessage(u) THEN 0 ELSE @,
                !.ordGreet = IF Ordinary(u) THEN Min(@ + 1, THRESHOLD + 1) ELSE @,
                !.joinRun = IF join THEN @ + 1
                            ELSE IF HasMessage(u) THEN 0 ELSE @,
                !.runArmed = IF join THEN armed
                             ELSE IF HasMessage(u) THEN FALSE ELSE @,
                !.runSends = IF HasMessage(u) /\ ~join THEN 0 ELSE @,
                !.scen = ScenarioStep(@, u)]
    /\ UNCHANGED <<message_count, last_message, chat, nextId>>

(* -------------------------------------------------- group 0: count_message *)

count_message ==
    /\ pc = "group0"
    /\ CountMessageFilter(update)
    /\ message_count' = message_count + 1
    /\ ev' = [ev EXCEPT !.counted = TRUE]
    /\ pc' = "group1"
    /\ UNCHANGED <<last_message, chat, nextId, update, hist>>

\* No handler of group 0 matches the update.
Group0NoMatch ==
    /\ pc = "group0"
    /\ ~CountMessageFilter(update)
    /\ pc' = "group1"
    /\ UNCHANGED <<message_count, last_message, chat, nextId, update, ev, hist>>

(* -------------------------------------------------- group 1: greet_message *)

\* greet_message up to its first await or return: the check, the reset, the
\* effective_chat test and the test of state.last_message.
greet_message ==
    /\ pc = "group1"
    /\ GreetMessageFilter(update)
    /\ IF Suppressed(message_count)
         THEN /\ pc' = "group2"
              /\ ev' = [ev EXCEPT !.checked = TRUE, !.checkCount = message_count]
              /\ UNCHANGED <<message_count, hist>>
         ELSE /\ message_count' = ResetCount(message_count)
              /\ ev' = [ev EXCEPT !.checked = TRUE, !.checkCount = message_count,
                                  !.reset = TRUE]
              /\ hist' = [hist EXCEPT !.anchor = "reset", !.ordSince = 0,
                                      !.othSince = 0]
              /\ pc' = FirstAwait(EffectiveChat(update), last_message)
    /\ UNCHANGED <<last_message, chat, nextId, update>>

\* await state.last_message.delete(), inside try / except BadRequest
delete_await ==
    /\ pc = "delete"
    /\ \E o \in DeleteOutcomes(last_message \in chat) :
         /\ \/ /\ o = "deleted"
               /\ chat' = chat \ {last_message}
            \/ /\ o # "deleted"
               /\ chat' = chat
         /\ IF ExceptionOf(o) = "" \/ Caught(ExceptionOf(o))
              THEN /\ pc' = "send"
                   /\ ev' = [ev EXCEPT !.delOutcome = o, !.delTarget = last_message]
              ELSE /\ pc' = "group2"
                   /\ ev' = [ev EXCEPT !.delOutcome = o, !.delTarget = last_message,
                                       !.error = TRUE]
         /\ hist' = [hist EXCEPT
                       !.delClean = @ /\ o \in {"deleted", "not_found"}]
    /\ UNCHANGED <<message_count, last_message, nextId, update>>

\* state.last_message = await update.effective_chat.send_message(...)
send_await ==
    /\ pc = "send"
    /\ \E o \in SendOutcomes :
         IF o = "ok"
           THEN /\ last_message' = nextId
                /\ chat' = chat \cup {nextId}
                /\ nextId' = nextId + 1
                /\ ev' = [ev EXCEPT !.sends = @ + 1, !.sendOutcome = o,
                                    !.sentId = nextId]
                /\ hist' = [hist EXCEPT !.greetings = @ + 1, !.ordGreet = 0,
                                        !.runSends = @ + 1, !.lastWelcome = nextId,
                                        !.lastGreet = nextId,
                                        !.greetIds = @ \cup {nextId}]
                /\ UNCHANGED message_count
           ELSE /\ message_count' = CountAfterSendError(message_count, ev.preCount)
                /\ ev' = [ev EXCEPT !.sends = @ + 1, !.sendOutcome = o,
                                    !.error = TRUE]
                /\ hist' = [hist EXCEPT !.runSends = @ + 1]
                /\ UNCHANGED <<last_message, chat, nextId>>
    /\ pc' = "group2"
    /\ UNCHANGED update

\* No handler of group 1 matches the update.
Group1NoMatch ==
    /\ pc = "group1"
    /\ ~GreetMessageFilter(update)
    /\ pc' = "group2"
    /\ UNCHANGED <<message_count, last_message, chat, nextId, update, ev, hist>>

(* ------------------------------------------ group 2: the command handlers *)

\* /about: reply_text(WELCOME_MESSAGE_FORMAT); the reply is not stored.
greet_message_force_storing ==
    /\ pc = "group2"
    /\ update = "/about"
    /\ \E o \in SendOutcomes :
         IF o = "ok"
           THEN /\ chat' = chat \cup {nextId}
                /\ nextId' = nextId + 1
                /\ last_message' = nextId
                /\ ev' = [ev EXCEPT !.replied = o]
                /\ hist' = [hist EXCEPT !.lastWelcome = nextId]
           ELSE /\ ev' = [ev EXCEPT !.replied = o, !.error = TRUE]
                /\ UNCHANGED <<chat, nextId, hist, last_message>>
    /\ pc' = "idle"
    /\ UNCHANGED <<message_count, update>>

greet_message_force ==
    /\ pc = "group2"
    /\ update = "/about"
    /\ \E o \in SendOutcomes :
         IF o = "ok"
           THEN /\ chat' = chat \cup {nextId}
                /\ nextId' = nextId + 1
                /\ ev' = [ev EXCEPT !.replied = o]
                /\ hist' = [hist EXCEPT !.lastWelcome = nextId]
           ELSE /\ ev' = [ev EXCEPT !.replied = o, !.error = TRUE]
                /\ UNCHANGED <<chat, nextId, hist>>
    /\ pc' = "idle"
    /\ UNCHANGED <<message_count, last_message, update>>

\* /rules, /question, /calendar: reply_text of a fixed text.
static_reply ==
    /\ pc = "group2"
    /\ update \in CommandSet \ {"/about"}
    /\ \E o \in SendOutcomes :
         ev' = [ev EXCEPT !.replied = o, !.error = (o # "ok")]
    /\ pc' = "idle"
    /\ UNCHANGED <<message_count, last_message, chat, nextId, update, hist>>

\* No handler of group 2 matches the update.
Group2NoMatch ==
    /\ pc = "group2"
    /\ update \notin CommandSet
    /\ pc' = "idle"
    /\ UNCHANGED <<message_count, last_message, chat, nextId, update, ev, hist>>

(* ------------------------------------------------------------ environment *)

\* Another actor (a moderator, the platform) removes a welcome message.
ExternalDelete ==
    /\ \E m \in chat : chat' = chat \ {m}
    /\ UNCHANGED <<message_count, last_message, nextId, pc, update, ev, hist>>

Next ==
    \/ \E u \in Updates : Dispatch(u)
    \/ count_message
    \/ Group0NoMatch
    \/ greet_message
    \/ delete_await
    \/ send_await
    \/ Group1NoMatch
    \/ greet_message_force
    \/ static_reply
    \/ Group2NoMatch
    \/ ExternalDelete

Spec == Init /\ [][Next]_vars

(* ------------------------------------------- overlapping new-member updates *)
(* A second specification: two new-member updates whose handling may        *)
(* overlap (Application.concurrent_updates, or handlers with block=False).  *)
(* An invocation runs from its start to its first await without             *)
(* interruption (count_message, then the check and the reset of             *)
(* greet_message) and can be overtaken only while it waits for delete() or  *)
(* send_message(). Here pc, update and ev hold one value per invocation.    *)

Tasks == {1, 2}

\* What one invocation did.
ConcEvent ==
    [ checked     |-> FALSE,
      checkCount  |-> 0,       \* message_count greet_message compared
      reset       |-> FALSE,
      overlap     |-> FALSE,   \* the other invocation was waiting at the check
      between     |-> 0,       \* count_message runs since the last reset, at the check
      delTarget   |-> None,    \* state.last_message when delete() was called
      delOutcome  |-> "none",
      sends       |-> 0,
      sendOutcome |-> "none",
      sentId      |-> None ]

\* The state the serial program is in when the two updates arrive: any count,
\* and either no greeting so far or one greeting, still in the chat or gone.
InitConc ==
    /\ message_count \in 0..(MaxCount - 1)
    /\ \E prior \in BOOLEAN :
         /\ last_message = IF prior THEN 1 ELSE None
         /\ chat \in IF prior THEN {{1}, {}} ELSE {{}}
         /\ nextId = IF prior THEN 2 ELSE 1
    /\ pc = [t \in Tasks |-> "wait"]
    /\ update = [t \in Tasks |-> "new_chat_members"]
    /\ ev = [t \in Tasks |-> ConcEvent]
    /\ hist = [resets |-> 0, between |-> 0]

\* An ordinary message is handled: count_message, no await.
ConcCount ==
    /\ message_count < MaxCount
    /\ message_count' = message_count + 1
    /\ hist' = [hist EXCEPT !.between = IF hist.resets > 0 THEN @ + 1 ELSE @]
    /\ UNCHANGED <<last_message, chat, nextId, pc, update, ev>>

\* Invocation t from its dispatch to its first await: count_message (group 0),
\* then greet_message up to delete(), send_message() or its return.
ConcStart(t) ==
    LET c == message_count + 1
        waiting == \E s \in Tasks \ {t} : pc[s] \in {"delete", "send"}
        seen == [ev[t] EXCEPT !.checked = TRUE, !.checkCount = c,
                              !.overlap = waiting,
                              !.between = IF hist.resets > 0
                                          THEN hist.between + 1 ELSE 0]
    IN
    /\ pc[t] = "wait"
    /\ message_count < MaxCount
    /\ CountMessageFilter(update[t]) /\ GreetMessageFilter(update[t])
    /\ IF Suppressed(c)
         THEN /\ message_count' = c
              /\ pc' = [pc EXCEPT ![t] = "done"]
              /\ ev' = [ev EXCEPT ![t] = seen]
              /\ hist' = [hist EXCEPT
                            !.between = IF hist.resets > 0 THEN @ + 1 ELSE @]
         ELSE /\ message_count' = ResetCount(c)
              /\ pc' = [pc EXCEPT
                          ![t] = FirstAwait(EffectiveChat(update[t]), last_message)]
              /\ ev' = [ev EXCEPT ![t] = [seen EXCEPT !.reset = TRUE,
                                                      !.delTarget = last_message]]
              /\ hist' = [hist EXCEPT !.resets = @ + 1, !.between = 0]
    /\ UNCHANGED <<last_message, chat, nextId, update>>

\* delete() of invocation t completes.
ConcDelete(t) ==
    /\ pc[t] = "delete"
    /\ \E o \in DeleteOutcomes(ev[t].delTarget \in chat) :
         /\ chat' = IF o = "deleted" THEN chat \ {ev[t].delTarget} ELSE chat
         /\ pc' = [pc EXCEPT ![t] = IF ExceptionOf(o) = "" \/ Caught(ExceptionOf(o))
                                     THEN "send" ELSE "done"]
         /\ ev' = [ev EXCEPT ![t].delOutcome = o]
    /\ UNCHANGED <<message_count, last_message, nextId, update, hist>>

\* send_message() of invocation t completes; the result is stored.
ConcSend(t) ==
    /\ pc[t] = "send"
    /\ \E o \in SendOutcomes :
         IF o = "ok"
           THEN /\ last_message' = nextId
                /\ chat' = chat \cup {nextId}
                /\ nextId' = nextId + 1
                /\ ev' = [ev EXCEPT ![t].sends = @ + 1, ![t].sendOutcome = o,
                                    ![t].sentId = nextId]
           ELSE /\ ev' = [ev EXCEPT ![t].sends = @ + 1, ![t].sendOutcome = o]
                /\ UNCHANGED <<last_message, chat, nextId>>
    /\ pc' = [pc EXCEPT ![t] = "done"]
    /\ UNCHANGED <<message_count, update, hist>>

NextConc ==
    \/ ConcCount
    \/ \E t \in Tasks : ConcStart(t)
    \/ \E t \in Tasks : ConcDelete(t)
    \/ \E t \in Tasks : ConcSend(t)

SpecConc == InitConc /\ [][NextConc]_vars

(* ---------------------------------------------------------- type invariant *)

TypeOK ==
    /\ message_count \in 0..MaxCount
    /\ last_message \in 0..MaxMsgs
    /\ chat \subseteq 1..MaxMsgs
    /\ nextId \in 1..(MaxMsgs + 1)
    /\ pc \in {"idle", "group0", "group1", "delete", "send", "group2"}
    /\ update \in Updates \cup {"none"}

\* The update has passed all groups.
Handled == pc = "idle" /\ ev.kind # "none"

\* The update being handled is a new-member update.
IsJoin == GreetMessageFilter(ev.kind)

\* greet_message has returned or raised for the current new-member update.
GreetDone == IsJoin /\ pc \in {"group2", "idle"}

(* ------------------------------------------------------------ properties *)

\* C1: the first new-member update after startup takes the greeting path,
\* whatever number of ordinary messages was dispatched before it:
\* message_count is reset, send_message is called once, and when the send
\* succeeds the sent message is stored in last_message.
C1_FirstJoinGreets ==
    (ev.first /\ GreetDone) =>
        /\ ev.reset
        /\ ev.sends = 1
        /\ ev.sendOutcome = "ok" => (ev.sentId # None /\ last_message = ev.sentId)

C1_Witness ==
    /\ ev.first /\ Handled
    /\ ev.ordRun >= 2
    /\ ev.sendOutcome = "ok"
    /\ last_message = ev.sentId

C3_Original ==
    (GreetDone /\ ev.ordRun > THRESHOLD) => (ev.sends = 1 /\ message_count = 0)

\* C4 as claimed: between two consecutive greetings sent by greet_message at
\* least THRESHOLD + 1 ordinary messages were dispatched.
C4_Original ==
    (GreetDone /\ ev.hadGreeting /\ ev.sendOutcome = "ok") =>
        ev.ordGreet >= THRESHOLD + 1

\* C5 as claimed: in a run of back-to-back new-member updates that starts with
\* message_count > THRESHOLD, every update after the first fails the check and
\* sends nothing.
C5_Original ==
    (GreetDone /\ ev.runArmed /\ ev.joinIdx >= 2) => (~ev.reset /\ ev.sends = 0)

\* C6 as claimed: of two back-to-back new-member updates dispatched with
\* message_count > THRESHOLD, the first calls send_message once and the second
\* does not call it.
C6_Original ==
    (GreetDone /\ ev.runArmed /\ ev.joinIdx = 2) =>
        (ev.runSends = 1 /\ ev.sends = 0)

\* C7: when the delete of the previous greeting fails because the message is
\* not found, greet_message goes on: send_message is called once, and when the
\* send succeeds last_message is the newly sent message.
C7_DeleteNotFoundTolerated ==
    ev.delOutcome = "not_found" =>
        /\ pc = "send" \/ ev.sends = 1
        /\ ev.sendOutcome # "fail" => ~ev.error
        /\ ev.sendOutcome = "ok" =>
              (last_message = ev.sentId /\ ev.sentId # ev.preLast)

C7_Witness ==
    /\ Handled
    /\ ev.preCount > THRESHOLD /\ ev.preLast # None
    /\ ev.delOutcome = "not_found"
    /\ ev.sendOutcome = "ok"
    /\ last_message = ev.sentId /\ last_message # ev.preLast

\* C8 as claimed: whatever way the delete of the previous greeting fails,
\* greet_message goes on to send_message.
C8_Original ==
    ev.delOutcome \notin {"none", "deleted"} => (pc = "send" \/ ev.sends = 1)

\* C9 as claimed: a handling resets message_count to 0 if and only if it sends
\* a greeting.
C9_Original ==
    Handled => (ev.reset <=> ev.sendOutcome = "ok")

\* C9 amended: message_count is reset to 0 exactly by a new-member handling
\* whose check finds message_count > THRESHOLD; every greeting sent is sent by
\* a handling that reset it, and a reset stays when no greeting follows (the
\* delete raised something other than BadRequest, or the send failed).
C9_ResetWithGreeting ==
    /\ ev.sendOutcome = "ok" => ev.reset
    /\ ev.reset <=> (ev.checked /\ ev.checkCount > THRESHOLD)
    /\ ev.reset => message_count = 0
    /\ message_count = 0 => hist.anchor = "reset"
    /\ (Handled /\ ev.reset /\ ev.sendOutcome # "ok") =>
          \/ ev.sendOutcome = "fail"
          \/ ExceptionOf(ev.delOutcome) \notin {"", "BadRequest"}

C9_Witness ==
    /\ Handled
    /\ ev.reset /\ ev.checkCount > THRESHOLD
    /\ ev.sendOutcome = "ok"
    /\ message_count = 0

\* C10: when send_message fails the exception leaves greet_message,
\* message_count stays 0, last_message keeps the value it had before the
\* update, and send_message is not called again: it is only ever called, once,
\* by the handling of a new-member update whose check found
\* message_count > THRESHOLD.
C10_SendFailure ==
    /\ ev.sendOutcome = "fail" =>
          /\ pc \in {"group2", "idle"}
          /\ ev.error
          /\ message_count = 0
          /\ last_message = ev.preLast
          /\ ev.sends = 1
    /\ pc = "send" =>
          /\ GreetMessageFilter(update)
          /\ ev.checkCount > THRESHOLD
          /\ ev.sends = 0

C10_Witness ==
    /\ Handled
    /\ ev.sendOutcome = "fail"
    /\ message_count = 0
    /\ ev.preLast # None /\ last_message = ev.preLast
    /\ last_message \notin chat

\* C11 as claimed: in the concrete scenario from message_count = 4 the first
\* join greets and leaves message_count = 0, two ordinary messages make it 2,
\* the second join does not greet, two more ordinary messages make it 4, and
\* the third join greets and leaves message_count = 0.
C11_Original ==
    Handled =>
        /\ ev.scen = 1 => (ev.preCount = 4 /\ ev.sends = 1 /\ message_count = 0)
        /\ ev.scen = 3 => message_count = 2
        /\ ev.scen = 4 => ev.sends = 0
        /\ ev.scen = 6 => message_count = 4
        /\ ev.scen = 7 => (ev.sends = 1 /\ message_count = 0)

\* C12 as claimed: when a command update has passed all handlers,
\* message_count and last_message are what they were before it, and the
\* controller is ARMED exactly if it was before.
C12_Original ==
    (Handled /\ ev.kind \in CommandSet) =>
        /\ message_count = ev.preCount
        /\ last_message = ev.preLast
        /\ (message_count > THRESHOLD) <=> (ev.preCount > THRESHOLD)

\* C13 as claimed: last_message is empty if no welcome message was sent, and
\* otherwise is the welcome message sent last, whichever handler sent it.
C13_Original ==
    last_message = hist.lastWelcome

\* C13 amended: last_message is empty if greet_message has sent no greeting,
\* and otherwise is the greeting greet_message sent last; a welcome message
\* sent by /about is not recorded.
C13_LastGreeting ==
    /\ last_message = hist.lastGreet
    /\ last_message = None <=> hist.greetings = 0
    /\ last_message # None =>
          /\ last_message \in hist.greetIds
          /\ \A m \in hist.greetIds : m <= last_message
    /\ (Handled /\ ev.kind = "/about") => last_message = ev.preLast

C13_Witness ==
    /\ Handled
    /\ ev.kind = "/about" /\ ev.replied = "ok"
    /\ last_message # None
    /\ last_message = hist.lastGreet
    /\ hist.lastWelcome > last_message

\* C14 as claimed: a new-member update dispatched with
\* message_count <= THRESHOLD leaves message_count and last_message as they
\* were and sends and deletes nothing.
C14_Original ==
    (Handled /\ IsJoin /\ ev.preCount <= THRESHOLD) =>
        /\ message_count = ev.preCount
        /\ last_message = ev.preLast
        /\ ev.sends = 0
        /\ ev.delOutcome = "none"

\* C15: an ordinary message increments message_count by exactly 1, leaves
\* last_message unchanged and neither sends nor deletes a message, also when
\* the increment takes message_count above THRESHOLD.
C15_OrdinaryMessage ==
    Ordinary(ev.kind) =>
        /\ pc \in {"group0", "group1", "group2", "idle"}
        /\ pc = "group0" => (message_count = ev.preCount /\ ~ev.counted)
        /\ pc # "group0" => (message_count = ev.preCount + 1 /\ ev.counted)
        /\ last_message = ev.preLast
        /\ ~ev.checked /\ ~ev.reset
        /\ ev.delOutcome = "none"
        /\ ev.sends = 0
        /\ ev.replied = "none"
        /\ ~ev.error

C15_Witness ==
    /\ Handled
    /\ ev.kind = "sticker"
    /\ ev.preCount = THRESHOLD
    /\ message_count = THRESHOLD + 1
    /\ ev.sends = 0
    /\ last_message = ev.preLast

\* C16: in one greeting transition message_count is reset first, then the
\* delete is attempted, only if last_message is set and on the message stored
\* before the update, then send_message is called, then the sent message is
\* stored; the delete never targets the message sent in the same transition.
C16_TransitionOrder ==
    /\ pc = "delete" =>
          /\ ev.reset /\ message_count = 0
          /\ last_message # None /\ last_message = ev.preLast
          /\ ev.delOutcome = "none" /\ ev.sends = 0
    /\ pc = "send" =>
          /\ ev.reset /\ message_count = 0
          /\ last_message = ev.preLast
          /\ ev.preLast # None <=> ev.delOutcome # "none"
          /\ ev.sends = 0
    /\ ev.delOutcome # "none" =>
          /\ ev.reset
          /\ ev.delTarget # None /\ ev.delTarget = ev.preLast
          /\ ev.sentId # None => ev.delTarget < ev.sentId
    /\ ev.sends > 0 =>
          /\ ev.reset
          /\ ev.preLast # None <=> ev.delOutcome # "none"
    /\ ev.sendOutcome = "ok" => last_message = ev.sentId

C16_Witness ==
    /\ Handled
    /\ ev.reset
    /\ ev.delOutcome = "deleted" /\ ev.delTarget = ev.preLast
    /\ ev.sendOutcome = "ok"
    /\ last_message = ev.sentId /\ ev.sentId > ev.delTarget

\* C17: message_count is never negative, and a step leaves it, increases it,
\* or sets it to 0; it decreases only in greet_message handling a new-member
\* update with message_count > THRESHOLD.
C17_CountSteps ==
    /\ [](message_count >= 0)
    /\ [][ \/ message_count' >= message_count
           \/ /\ message_count' = 0
              /\ pc = "group1"
              /\ GreetMessageFilter(update)
              /\ message_count > THRESHOLD ]_vars

C17_Witness ==
    /\ pc = "delete"
    /\ ev.checkCount = THRESHOLD + 2
    /\ message_count = 0

C18_AtMostOneGreets ==
    \A t \in Tasks : \A s \in Tasks \ {t} :
        (ev[t].checked /\ ev[t].overlap /\ ev[t].between < THRESHOLD + 1) =>
            /\ ev[s].reset
            /\ ~ev[t].reset
            /\ pc[t] = "done"
            /\ ev[t].sends = 0
            /\ ev[s].sends + ev[t].sends <= 1

C18_Witness ==
    \E t \in Tasks : \E s \in Tasks \ {t} :
        /\ pc[s] = "send" /\ ev[s].delOutcome = "deleted"
        /\ ev[t].checked /\ ev[t].overlap
        /\ ev[t].between = THRESHOLD
        /\ pc[t] = "done" /\ ev[t].sends = 0

\* The window of C18: with THRESHOLD + 1 runs of count_message in between,
\* both invocations are in the greeting path at the same time.
C18_Overlap ==
    \E t \in Tasks : \E s \in Tasks \ {t} :
        /\ pc[s] \in {"delete", "send"} /\ pc[t] \in {"delete", "send"}
        /\ ev[t].overlap /\ ev[t].between = THRESHOLD + 1

====
